---- MODULE Spec2Model ----
(***************************************************************************)
(* Model of scripts/create_skillsets_release.py: the version resolver      *)
(* (parse_semver, format_version, get_latest_release_version,              *)
(* determine_version), the paginated tag listing (list_tags), and the      *)
(* publish run of main (tag_exists, create_and_push_tag).                  *)
(*                                                                         *)
(* Strings are sequences of one-character strings, so that splitting,      *)
(* prefix tests, integer parsing and formatting are computed as the code   *)
(* computes them.  The two fixed prefixes "refs/tags/" and "skillsets-v"   *)
(* are single tokens of such a sequence.                                   *)
(***************************************************************************)
EXTENDS Integers, Sequences, FiniteSets, TLC

\* ------------------------------------------------------------------------
\* Bounds of the model
\* ------------------------------------------------------------------------
MaxLen == 6
MaxInitTags == 3
MaxOtherPages == 1
MaxRuns == 1

\* ------------------------------------------------------------------------
\* Program constants
\* ------------------------------------------------------------------------
TAG_PREFIX == <<"skillsets-v">>
REF_PREFIX == <<"refs/tags/">> \o TAG_PREFIX
PER_PAGE == 100

\* Python's None
None == <<"None">>

\* ------------------------------------------------------------------------
\* Characters and Python string primitives
\* ------------------------------------------------------------------------
Digits == {"0", "1", "2", "3", "4", "5", "6", "7", "8", "9"}
Letters == {"a", "b", "c", "d", "e", "f", "g", "h", "i", "j", "k", "l", "m",
            "n", "o", "p", "q", "r", "s", "t", "u", "v", "w", "x", "y", "z"}

DigitVal(c) ==
  CASE c = "0" -> 0 [] c = "1" -> 1 [] c = "2" -> 2 [] c = "3" -> 3
    [] c = "4" -> 4 [] c = "5" -> 5 [] c = "6" -> 6 [] c = "7" -> 7
    [] c = "8" -> 8 [] c = "9" -> 9

DigitChar(d) ==
  CASE d = 0 -> "0" [] d = 1 -> "1" [] d = 2 -> "2" [] d = 3 -> "3"
    [] d = 4 -> "4" [] d = 5 -> "5" [] d = 6 -> "6" [] d = 7 -> "7"
    [] d = 8 -> "8" [] d = 9 -> "9"

\* c in s
Contains(s, c) == \E i \in 1..Len(s) : s[i] = c

\* index of the first occurrence of c in s (0 when absent)
IndexOf(s, c) ==
  IF Contains(s, c)
  THEN CHOOSE i \in 1..Len(s) : s[i] = c /\ \A j \in 1..(i - 1) : s[j] # c
  ELSE 0

\* s[n:]
Drop(s, n) == SubSeq(s, n + 1, Len(s))

\* s.startswith(p)
StartsWith(s, p) == Len(s) >= Len(p) /\ SubSeq(s, 1, Len(p)) = p

\* s.split(sep): always at least one part, parts may be empty
RECURSIVE Split(_, _)
Split(s, sep) ==
  IF Contains(s, sep)
  THEN <<SubSeq(s, 1, IndexOf(s, sep) - 1)>> \o Split(Drop(s, IndexOf(s, sep)), sep)
  ELSE <<s>>

\* s.lstrip(c)
RECURSIVE LStrip(_, _)
LStrip(s, c) == IF Len(s) > 0 /\ s[1] = c THEN LStrip(Tail(s), c) ELSE s

RECURSIVE RStrip(_, _)
RStrip(s, c) ==
  IF Len(s) > 0 /\ s[Len(s)] = c THEN RStrip(SubSeq(s, 1, Len(s) - 1), c) ELSE s

AllIn(s, S) == \A i \in 1..Len(s) : s[i] \in S

\* int(s): surrounding blanks are stripped, one optional sign, then digits
\* that may be grouped by single underscores; anything else is a ValueError.
IntBody(s) ==
  LET t == RStrip(LStrip(s, " "), " ")
  IN  IF Len(t) > 0 /\ t[1] \in {"+", "-"} THEN Tail(t) ELSE t

IntSign(s) ==
  LET t == RStrip(LStrip(s, " "), " ")
  IN  IF Len(t) > 0 /\ t[1] = "-" THEN -1 ELSE 1

IsInt(s) ==
  LET b == IntBody(s)
  IN  /\ Len(b) > 0
      /\ AllIn(b, Digits \cup {"_"})
      /\ b[1] # "_"
      /\ b[Len(b)] # "_"
      /\ \A i \in 1..(Len(b) - 1) : ~(b[i] = "_" /\ b[i + 1] = "_")

RECURSIVE DigitsVal(_, _)
DigitsVal(b, acc) ==
  IF Len(b) = 0 THEN acc
  ELSE IF b[1] = "_" THEN DigitsVal(Tail(b), acc)
  ELSE DigitsVal(Tail(b), 10 * acc + DigitVal(b[1]))

IntVal(s) == IntSign(s) * DigitsVal(IntBody(s), 0)

\* str(n) for an int n, as an f-string formats it
RECURSIVE NatToStr(_)
NatToStr(n) ==
  IF n < 10 THEN <<DigitChar(n)>> ELSE NatToStr(n \div 10) \o <<DigitChar(n % 10)>>

IntToStr(n) == IF n < 0 THEN <<"-">> \o NatToStr(-n) ELSE NatToStr(n)

\* ------------------------------------------------------------------------
\* parse_semver / format_version
\* ------------------------------------------------------------------------
\* A result of parse_semver: the tuple, or the ReleaseError it raises.
ReleaseError == [ok |-> FALSE, val |-> <<>>]
Ok(v) == [ok |-> TRUE, val |-> v]

parse_semver(version) ==
  LET base_version == Split(version, "-")[1]
      parts == Split(base_version, ".")
  IN  IF Len(parts) # 3 THEN ReleaseError
      ELSE IF ~(IsInt(parts[1]) /\ IsInt(parts[2]) /\ IsInt(parts[3])) THEN ReleaseError
      ELSE Ok(<<IntVal(parts[1]), IntVal(parts[2]), IntVal(parts[3])>>)

\* format_version with minor and patch exchanged
format_version_swapped(major, minor, patch) ==
  IntToStr(major) \o <<".">> \o IntToStr(patch) \o <<".">> \o IntToStr(minor)

format_version(major, minor, patch) ==
  IntToStr(major) \o <<".">> \o IntToStr(minor) \o <<".">> \o IntToStr(patch)

\* ------------------------------------------------------------------------
\* Version strings used by the code and by the tag pools
\* ------------------------------------------------------------------------
V_0_0_0 == <<"0", ".", "0", ".", "0">>
V_1_0_0 == <<"1", ".", "0", ".", "0">>
NEXT_LABEL == <<"-", "n", "e", "x", "t", ".">>
V_1_0_0_next_1 == V_1_0_0 \o NEXT_LABEL \o <<"1">>

\* ------------------------------------------------------------------------
\* get_latest_release_version
\* ------------------------------------------------------------------------
\* Python's tuple comparison a > b
TupleGT(a, b) ==
  \/ a[1] > b[1]
  \/ a[1] = b[1] /\ a[2] > b[2]
  \/ a[1] = b[1] /\ a[2] = b[2] /\ a[3] > b[3]

\* max(seq) for a non-empty sequence of tuples
RECURSIVE MaxTuple(_)
MaxTuple(seq) ==
  IF Len(seq) = 1 THEN seq[1]
  ELSE LET m == MaxTuple(Tail(seq))
       IN  IF TupleGT(m, seq[1]) THEN m ELSE seq[1]

\* the loop that fills stable_versions
RECURSIVE stable_versions(_)
stable_versions(tags) ==
  IF tags = <<>> THEN <<>>
  ELSE LET version == Head(tags)
           rest == stable_versions(Tail(tags))
       IN  IF Contains(version, "-") THEN rest
           ELSE IF parse_semver(version).ok THEN <<parse_semver(version).val>> \o rest
           ELSE rest

\* get_latest_release_version taking the first stable version, not the highest
get_latest_release_version_first(tags) ==
  LET sv == stable_versions(tags)
  IN  IF sv = <<>> THEN None
      ELSE format_version(sv[1][1], sv[1][2], sv[1][3])

get_latest_release_version(tags) ==
  LET sv == stable_versions(tags)
  IN  IF sv = <<>> THEN None
      ELSE LET highest == MaxTuple(sv)
           IN  format_version(highest[1], highest[2], highest[3])

\* ------------------------------------------------------------------------
\* determine_version, in the pieces between its two calls of list_tags
\* ------------------------------------------------------------------------
\* first_version without the snapshot branch
first_version_stable_only(publish_release) == V_1_0_0

\* no existing release
first_version(publish_release) ==
  IF publish_release THEN V_1_0_0 ELSE V_1_0_0_next_1

\* latest_version is the string get_latest_release_version returned
\* next_minor_version without the reset of the patch level
next_minor_version_keep_patch(latest_version) ==
  LET t == parse_semver(latest_version).val
  IN  format_version(t[1], t[2] + 1, t[3])

next_minor_version(latest_version) ==
  LET t == parse_semver(latest_version).val
  IN  format_version(t[1], t[2] + 1, 0)

next_prefix(latest_version) ==
  LET t == parse_semver(latest_version).val
  IN  format_version(t[1], t[2], t[3]) \o NEXT_LABEL

\* highest_next counting the matching tags instead of taking their maximum
RECURSIVE highest_next_count(_, _, _)
highest_next_count(tags, prefix, highest) ==
  IF tags = <<>> THEN highest
  ELSE LET version == Head(tags)
           suffix == Drop(version, Len(prefix))
       IN  IF StartsWith(version, prefix) /\ IsInt(suffix)
           THEN highest_next_count(Tail(tags), prefix, highest + 1)
           ELSE highest_next_count(Tail(tags), prefix, highest)

\* the scan over the second tag listing
RECURSIVE highest_next(_, _, _)
highest_next(tags, prefix, highest) ==
  IF tags = <<>> THEN highest
  ELSE LET version == Head(tags)
           suffix == Drop(version, Len(prefix))
       IN  IF StartsWith(version, prefix) /\ IsInt(suffix)
           THEN highest_next(Tail(tags), prefix,
                             IF IntVal(suffix) > highest THEN IntVal(suffix) ELSE highest)
           ELSE highest_next(Tail(tags), prefix, highest)

next_snapshot_version(tags, prefix) ==
  prefix \o IntToStr(highest_next(tags, prefix, 0) + 1)

\* ------------------------------------------------------------------------
\* main: validation of an explicit version
\* ------------------------------------------------------------------------
\* re.match(r"^\d+\.\d+\.\d+(-[a-zA-Z]+\.\d+)?$", version)
IsDigits(s) == Len(s) > 0 /\ AllIn(s, Digits)

IsCoreVersion(s) ==
  LET parts == Split(s, ".")
  IN  Len(parts) = 3 /\ IsDigits(parts[1]) /\ IsDigits(parts[2]) /\ IsDigits(parts[3])

version_format_ok(version) ==
  IF ~Contains(version, "-") THEN IsCoreVersion(version)
  ELSE LET i == IndexOf(version, "-")
           rest == Drop(version, i)
           j == IndexOf(rest, ".")
       IN  /\ IsCoreVersion(SubSeq(version, 1, i - 1))
           /\ j > 1
           /\ AllIn(SubSeq(rest, 1, j - 1), Letters)
           /\ IsDigits(Drop(rest, j))

\* ------------------------------------------------------------------------
\* Inputs: the tags of the remote namespace and the command lines
\* ------------------------------------------------------------------------
V_1_1_0 == <<"1", ".", "1", ".", "0">>
V_1_0_1 == <<"1", ".", "0", ".", "1">>

\* version strings a tag of the namespace may carry: stable ones, snapshots,
\* another label, a leading zero, and two that do not parse
TagPool ==
  << V_1_0_1,
     V_1_1_0,
     V_1_0_0_next_1,
     V_1_1_0 \o NEXT_LABEL \o <<"2">>,
     V_1_1_0 \o <<"-", "n", "i", "g", "h", "t", "l", "y", ".", "9">>,
     <<"0", "1", ".", "2", ".", "0">>,
     <<"1", ".", "0">>,
     V_1_1_0 \o NEXT_LABEL \o <<"x">> >>

\* the sub-sequence of TagPool selected by the index set I
RECURSIVE PoolSeq(_, _)
PoolSeq(I, i) ==
  IF i > Len(TagPool) THEN <<>>
  ELSE (IF i \in I THEN <<TagPool[i]>> ELSE <<>>) \o PoolSeq(I, i + 1)

InitRemotes ==
  { PoolSeq(I, 1) : I \in { J \in SUBSET (1..Len(TagPool)) : Cardinality(J) <= MaxInitTags } }

\* number of refs of other namespaces that the listing returns before ours
OtherCounts == {0, MaxOtherPages * PER_PAGE - 1}

OTHER_REF == <<"refs/tags/", "v", "0", ".", "1", ".", "0">>

\* values of --version
ExplicitPool ==
  { <<"v">> \o V_1_1_0,
    V_1_0_0_next_1,
    <<"1", ".", "0">> }

Modes == {"publish_next", "publish_release", "version",
          "get_latest_stable", "get_next_version"}

\* the namespaces parse_args accepts (--dry-run is left out of the query
\* runs, which never read it)
ArgSpace ==
  { a \in [mode : Modes, dry_run : BOOLEAN, version : ExplicitPool \cup {<<>>}] :
      /\ (a.mode = "version") <=> (a.version # <<>>)
      /\ a.dry_run => a.mode \in {"publish_next", "publish_release", "version"} }

\* ------------------------------------------------------------------------
\* State
\* ------------------------------------------------------------------------
VARIABLES
  remote,          \* version strings of the namespace's tags at origin, in listing order
  nOther,          \* refs of other namespaces listed before them
  localTags,       \* tag names of the local repository
  pc,              \* position of the run in main
  args,            \* the parsed command line
  phase,           \* which call of list_tags is running: "latest" or "scan"
  page,            \* list_tags: page
  tags,            \* list_tags: tags
  latest_tags,     \* what list_tags returned to get_latest_release_version
  scan_tags,       \* what list_tags returned to the scan of determine_version
  latest_version,  \* determine_version: latest_version
  version,         \* main: version
  exit_code,       \* main's return value, -1 while the run is on
  error,           \* which ReleaseError main caught
  printed,         \* the version a query run printed
  calls,           \* the external calls of the run, in order, with their outcome
  existed,         \* whether origin held tag_name when tag_exists looked it up
  remote0,         \* remote at the start of the run
  local0,          \* localTags at the start of the run
  runs,            \* completed runs
  s_in,            \* resolver check: the input string
  s_parsed,        \* resolver check: parse_semver(s_in)
  s_out,           \* resolver check: format_version of the parsed tuple
  ppc              \* resolver check: position

procVars == <<remote, nOther, localTags, pc, args, phase, page, tags, latest_tags,
              scan_tags, latest_version, version, exit_code, error, printed,
              calls, existed, remote0, local0, runs>>
parseVars == <<s_in, s_parsed, s_out, ppc>>
vars == <<procVars, parseVars>>

NoArgs == [mode |-> "none", dry_run |-> FALSE, version |-> <<>>]

Idle ==
  /\ pc = "idle"
  /\ args = NoArgs
  /\ phase = "none"
  /\ page = 0
  /\ tags = <<>>
  /\ latest_tags = <<>>
  /\ scan_tags = <<>>
  /\ latest_version = <<>>
  /\ version = <<>>
  /\ exit_code = -1
  /\ error = "none"
  /\ printed = <<>>
  /\ calls = <<>>
  /\ existed = FALSE
  /\ remote0 = <<>>
  /\ local0 = {}

ParseOff ==
  /\ s_in = <<>>
  /\ s_parsed = ReleaseError
  /\ s_out = <<>>
  /\ ppc = "off"

Init ==
  /\ remote \in InitRemotes
  /\ nOther \in OtherCounts
  /\ localTags = {}
  /\ runs = 0
  /\ Idle
  /\ ParseOff

\* ------------------------------------------------------------------------
\* The tag source: run_gh_api on the reference listing and on one reference
\* ------------------------------------------------------------------------
Min(a, b) == IF a < b THEN a ELSE b
Max(a, b) == IF a > b THEN a ELSE b

RefAt(j) == IF j <= nOther THEN OTHER_REF ELSE REF_PREFIX \o remote[j - nOther]

\* page k of the listing, per_page=100
Page(k) ==
  LET total == nOther + Len(remote)
      n == Max(0, Min(PER_PAGE, total - (k - 1) * PER_PAGE))
  IN  [i \in 1..n |-> RefAt((k - 1) * PER_PAGE + i)]

\* what run_gh_api can give list_tags for page k: a ReleaseError (gh failed
\* or printed no JSON), a JSON value that is not a list, or the page
Responses(k) ==
  { [ok |-> FALSE, kind |-> "none", items |-> <<>>],
    [ok |-> TRUE, kind |-> "dict", items |-> <<>>],
    [ok |-> TRUE, kind |-> "list", items |-> Page(k)] }

\* ------------------------------------------------------------------------
\* list_tags
\* ------------------------------------------------------------------------
\* the versions one response adds to tags
IsOurRef(ref_name) == StartsWith(ref_name, REF_PREFIX)

ref_versions(response) ==
  LET ours == SelectSeq(response, IsOurRef)
  IN  [i \in 1..Len(ours) |-> Drop(ours[i], Len(REF_PREFIX))]

\* listing_ends with <= in place of <
listing_ends_on_full_page(r) ==
  \/ ~r.ok
  \/ r.kind # "list"
  \/ r.items = <<>>
  \/ Len(r.items) <= PER_PAGE

\* the three breaks of the loop
listing_ends(r) ==
  \/ ~r.ok
  \/ r.kind # "list"
  \/ r.items = <<>>
  \/ Len(r.items) < PER_PAGE

ListCall(r) ==
  [call |-> "list", listing |-> IF phase = "latest" THEN 1 ELSE 2, page |-> page,
   ok |-> r.ok, len |-> IF r.ok /\ r.kind = "list" THEN Len(r.items) ELSE -1]

OtherCall(name, ok) ==
  [call |-> name, listing |-> 0, page |-> 0, ok |-> ok, len |-> -1]

\* ------------------------------------------------------------------------
\* main
\* ------------------------------------------------------------------------
tag_name == TAG_PREFIX \o version

EndRun(code, err) ==
  /\ pc' = "done"
  /\ exit_code' = code
  /\ error' = err

\* main after determine_version returned v
version_done(v) ==
  /\ version' = v
  /\ IF args.mode = "get_next_version"
     THEN printed' = v /\ EndRun(0, "none")
     ELSE pc' = "tag_exists" /\ UNCHANGED <<printed, exit_code, error>>

\* list_tags returned t to get_latest_release_version
after_latest(t) ==
  LET latest == get_latest_release_version(t)
  IN  /\ latest_tags' = t
      /\ latest_version' = latest
      /\ UNCHANGED scan_tags
      /\ IF args.mode = "get_latest_stable"
         THEN /\ printed' = (IF latest = None THEN V_0_0_0 ELSE latest)
              /\ EndRun(0, "none")
              /\ page' = 0 /\ tags' = <<>>
              /\ UNCHANGED <<phase, version>>
         ELSE IF latest = None
         THEN /\ version_done(first_version(args.mode = "publish_release"))
              /\ page' = 0 /\ tags' = <<>>
              /\ UNCHANGED phase
         ELSE IF args.mode = "publish_release"
         THEN /\ version_done(next_minor_version(latest))
              /\ page' = 0 /\ tags' = <<>>
              /\ UNCHANGED phase
         ELSE /\ phase' = "scan"
              /\ page' = 1 /\ tags' = <<>>
              /\ UNCHANGED <<pc, version, printed, exit_code, error>>

\* list_tags returned t to the scan of determine_version
after_scan(t) ==
  /\ scan_tags' = t
  /\ version_done(next_snapshot_version(t, next_prefix(latest_version)))
  /\ page' = 0 /\ tags' = <<>>
  /\ UNCHANGED <<phase, latest_tags, latest_version>>

\* parse_args and the head of main, up to the first external call
main_start ==
  /\ pc = "idle"
  /\ runs < MaxRuns
  /\ \E a \in ArgSpace :
       /\ args' = a
       /\ remote0' = remote
       /\ local0' = localTags
       /\ IF a.mode = "version"
          THEN LET v == LStrip(a.version, "v")
               IN  /\ IF version_format_ok(v)
                      THEN /\ version' = v
                           /\ pc' = "tag_exists"
                           /\ UNCHANGED <<exit_code, error>>
                      ELSE /\ EndRun(1, "invalid")
                           /\ UNCHANGED version
                   /\ UNCHANGED <<phase, page>>
          ELSE /\ pc' = "list_tags"
               /\ phase' = "latest"
               /\ page' = 1
               /\ UNCHANGED <<version, exit_code, error>>
  /\ UNCHANGED <<remote, nOther, localTags, tags, latest_tags, scan_tags,
                 latest_version, printed, calls, existed, runs, parseVars>>

\* one turn of the loop of list_tags and, when the loop ends, the code that
\* runs on its result up to the next external call
list_tags_page ==
  /\ pc = "list_tags"
  /\ \E r \in Responses(page) :
       LET t == IF r.ok /\ r.kind = "list" THEN tags \o ref_versions(r.items) ELSE tags
       IN  /\ calls' = Append(calls, ListCall(r))
           /\ IF ~listing_ends(r)
              THEN /\ page' = page + 1
                   /\ tags' = t
                   /\ UNCHANGED <<pc, phase, latest_tags, scan_tags, latest_version,
                                  version, exit_code, error, printed>>
              ELSE IF phase = "latest" THEN after_latest(t) ELSE after_scan(t)
  /\ UNCHANGED <<remote, nOther, localTags, args, existed, remote0, local0, runs,
                 parseVars>>

\* tag_exists(tag_name) and main down to the dry-run return.  gh exits 0 only
\* when origin holds the reference; it exits non-zero when the reference is
\* missing and whenever the call itself fails.
main_tag_exists ==
  /\ pc = "tag_exists"
  /\ \E api_ok \in BOOLEAN :
       /\ api_ok => \E i \in 1..Len(remote) : remote[i] = version
       /\ calls' = Append(calls, OtherCall("lookup", api_ok))
       /\ existed' = (\E i \in 1..Len(remote) : remote[i] = version)
       /\ IF api_ok
          THEN EndRun(1, "exists")
          ELSE IF args.dry_run
          THEN EndRun(0, "none")
          ELSE pc' = "git_tag" /\ UNCHANGED <<exit_code, error>>
  /\ UNCHANGED <<remote, nOther, localTags, args, phase, page, tags, latest_tags,
                 scan_tags, latest_version, version, printed, remote0, local0,
                 runs, parseVars>>

\* git_tag calling run_git with check=False: a failure goes on to the push
git_tag_unchecked ==
  /\ pc = "git_tag"
  /\ \E git_ok \in BOOLEAN :
       /\ git_ok => tag_name \notin localTags
       /\ calls' = Append(calls, OtherCall("tag", git_ok))
       /\ localTags' = IF git_ok THEN localTags \cup {tag_name} ELSE localTags
       /\ pc' = "git_push"
       /\ UNCHANGED <<exit_code, error>>
  /\ UNCHANGED <<remote, nOther, args, phase, page, tags, latest_tags, scan_tags,
                 latest_version, version, printed, existed, remote0, local0, runs,
                 parseVars>>

\* create_and_push_tag: git tag -a.  git refuses a tag name the local
\* repository already has, and may fail for any other reason.
git_tag ==
  /\ pc = "git_tag"
  /\ \E git_ok \in BOOLEAN :
       /\ git_ok => tag_name \notin localTags
       /\ calls' = Append(calls, OtherCall("tag", git_ok))
       /\ IF git_ok
          THEN /\ localTags' = localTags \cup {tag_name}
               /\ pc' = "git_push"
               /\ UNCHANGED <<exit_code, error>>
          ELSE /\ EndRun(1, "git")
               /\ UNCHANGED localTags
  /\ UNCHANGED <<remote, nOther, args, phase, page, tags, latest_tags, scan_tags,
                 latest_version, version, printed, existed, remote0, local0, runs,
                 parseVars>>

\* git_push calling run_git with check=False: a failed push ends as a success
git_push_unchecked ==
  /\ pc = "git_push"
  /\ \E git_ok \in BOOLEAN :
       /\ git_ok => \A i \in 1..Len(remote) : remote[i] # version
       /\ calls' = Append(calls, OtherCall("push", git_ok))
       /\ remote' = IF git_ok THEN Append(remote, version) ELSE remote
       /\ EndRun(0, "none")
  /\ UNCHANGED <<nOther, localTags, args, phase, page, tags, latest_tags, scan_tags,
                 latest_version, version, printed, existed, remote0, local0, runs,
                 parseVars>>

\* create_and_push_tag: git push origin tag_name, and the rest of main.
\* origin rejects a tag name it already has.
git_push ==
  /\ pc = "git_push"
  /\ \E git_ok \in BOOLEAN :
       /\ git_ok => \A i \in 1..Len(remote) : remote[i] # version
       /\ calls' = Append(calls, OtherCall("push", git_ok))
       /\ IF git_ok
          THEN /\ remote' = Append(remote, version)
               /\ EndRun(0, "none")
          ELSE /\ EndRun(1, "git")
               /\ UNCHANGED remote
  /\ UNCHANGED <<nOther, localTags, args, phase, page, tags, latest_tags, scan_tags,
                 latest_version, version, printed, existed, remote0, local0, runs,
                 parseVars>>

\* the process exits; the next invocation starts from the tags as they are
main_exit ==
  /\ pc = "done"
  /\ runs' = runs + 1
  /\ pc' = "idle"
  /\ args' = NoArgs
  /\ phase' = "none"
  /\ page' = 0
  /\ tags' = <<>>
  /\ latest_tags' = <<>>
  /\ scan_tags' = <<>>
  /\ latest_version' = <<>>
  /\ version' = <<>>
  /\ exit_code' = -1
  /\ error' = "none"
  /\ printed' = <<>>
  /\ calls' = <<>>
  /\ existed' = FALSE
  /\ remote0' = <<>>
  /\ local0' = {}
  /\ UNCHANGED <<remote, nOther, localTags, parseVars>>

Next ==
  \/ main_start
  \/ list_tags_page
  \/ main_tag_exists
  \/ git_tag
  \/ git_push
  \/ main_exit

Spec == Init /\ [][Next]_vars

\* ------------------------------------------------------------------------
\* The resolver on its own: parse_semver followed by format_version, on
\* every string over ParseAlphabet of at most MaxLen characters
\* ------------------------------------------------------------------------
ParseAlphabet == {"0", "1", "2", ".", "-", "+"}

ParseInputs == UNION { [1..n -> ParseAlphabet] : n \in 0..MaxLen }

InitParse ==
  /\ s_in \in ParseInputs
  /\ s_parsed = ReleaseError
  /\ s_out = <<>>
  /\ ppc = "in"
  /\ remote = <<>>
  /\ nOther = 0
  /\ localTags = {}
  /\ runs = 0
  /\ Idle

do_parse ==
  /\ ppc = "in"
  /\ s_parsed' = parse_semver(s_in)
  /\ ppc' = "parsed"
  /\ UNCHANGED <<s_in, s_out, procVars>>

do_format ==
  /\ ppc = "parsed"
  /\ s_parsed.ok
  /\ s_out' = format_version(s_parsed.val[1], s_parsed.val[2], s_parsed.val[3])
  /\ ppc' = "formatted"
  /\ UNCHANGED <<s_in, s_parsed, procVars>>

NextParse == do_parse \/ do_format

SpecParse == InitParse /\ [][NextParse]_vars

\* ------------------------------------------------------------------------
\* Vocabulary of the properties
\* ------------------------------------------------------------------------
PublishModes == {"publish_next", "publish_release", "version"}
SnapshotModes == {"publish_next", "get_next_version"}
AutoModes == {"publish_release"} \cup SnapshotModes

\* determine_version has returned
Determined == args.mode \in AutoModes /\ version # <<>>

Elems(seq) == { seq[i] : i \in 1..Len(seq) }

\* the (major, minor, patch) tuples of the listed tags that count as stable
StableTuples(listing) ==
  { parse_semver(v).val : v \in { w \in Elems(listing) : ~Contains(w, "-") /\ parse_semver(w).ok } }

\* a <= b in the order major, then minor, then patch
TupleLE(a, b) ==
  \/ a = b
  \/ a[1] < b[1]
  \/ a[1] = b[1] /\ a[2] < b[2]
  \/ a[1] = b[1] /\ a[2] = b[2] /\ a[3] < b[3]

\* m is the greatest of the set S of tuples
IsGreatest(m, S) == m \in S /\ \A x \in S : TupleLE(x, m)

IsLatestStable(m, listing) == IsGreatest(m, StableTuples(listing))

\* the numbers N of the listed tags of the form base-next.N
SnapshotNumbers(listing, base) ==
  { IntVal(Drop(v, Len(base \o NEXT_LABEL))) :
      v \in { w \in Elems(listing) :
                StartsWith(w, base \o NEXT_LABEL) /\ IsInt(Drop(w, Len(base \o NEXT_LABEL))) } }

\* the greatest element of a finite set of integers that holds 0
Greatest(S) == CHOOSE k \in S : \A n \in S : n <= k

HasCall(name, ok) == \E i \in 1..Len(calls) : calls[i].call = name /\ calls[i].ok = ok
Invoked(name) == \E i \in 1..Len(calls) : calls[i].call = name

\* ------------------------------------------------------------------------
\* C1
\* ------------------------------------------------------------------------
\* C1: in every publish run, if origin holds the chosen tag name when it is
\* looked up, the run ends with the "already exists" error and exit status
\* 1, neither git tag nor git push is invoked, and the local and the remote
\* tags are those of the start of the run.
C1_ExistingTagBlocksPublish ==
  (args.mode \in PublishModes /\ Invoked("lookup") /\ existed)
    => /\ pc = "done"
       /\ exit_code = 1
       /\ error = "exists"
       /\ ~Invoked("tag")
       /\ ~Invoked("push")
       /\ localTags = local0
       /\ remote = remote0

\* ------------------------------------------------------------------------
\* C2
\* ------------------------------------------------------------------------
\* C2: in stable-release mode, when the listing holds a stable version and
\* (M, m, p) is the latest one, the computed version is M.(m+1).0.
C2_StableReleaseBumpsMinor ==
  LET S == StableTuples(latest_tags)
  IN  (Determined /\ args.mode = "publish_release" /\ S # {})
        => \E t \in S :
             /\ IsGreatest(t, S)
             /\ version = IntToStr(t[1]) \o <<".">> \o IntToStr(t[2] + 1) \o <<".", "0">>

\* a stable release computed from a latest stable version with a patch level
C2_Witness ==
  /\ Determined
  /\ args.mode = "publish_release"
  /\ \E t \in StableTuples(latest_tags) : IsLatestStable(t, latest_tags) /\ t[3] > 0
  /\ \E v \in Elems(latest_tags) : Contains(v, "-")

C4_FirstVersion ==
  (Determined /\ StableTuples(latest_tags) = {})
    => version = IF args.mode = "publish_release"
                 THEN <<"1", ".", "0", ".", "0">>
                 ELSE <<"1", ".", "0", ".", "0", "-", "n", "e", "x", "t", ".", "1">>

\* a first snapshot computed from a listing that holds tags, none stable
C4_Witness ==
  /\ Determined
  /\ args.mode \in SnapshotModes
  /\ latest_tags # <<>>
  /\ StableTuples(latest_tags) = {}

\* ------------------------------------------------------------------------
\* C5
\* ------------------------------------------------------------------------
\* C5: get_latest_release_version returns the greatest (major, minor, patch)
\* among the listed tags without '-' that parse as three integers, formatted,
\* and None when there is no such tag.
C5_LatestStable ==
  LET S == StableTuples(latest_tags)
  IN  (latest_version # <<>>)
        => IF S = {}
           THEN latest_version = None
           ELSE \E t \in S :
                  /\ IsGreatest(t, S)
                  /\ latest_version = IntToStr(t[1]) \o <<".">> \o IntToStr(t[2]) \o <<".">> \o IntToStr(t[3])

\* a latest stable version found in a listing that also holds a prerelease
\* of a higher base and a tag that does not parse
C5_Witness ==
  /\ latest_version \notin {<<>>, None}
  /\ \E v \in Elems(latest_tags) : ~Contains(v, "-") /\ ~parse_semver(v).ok
  /\ \E v \in Elems(latest_tags) :
       /\ Contains(v, "-")
       /\ parse_semver(v).ok
       /\ \A t \in StableTuples(latest_tags) : ~TupleLE(parse_semver(v).val, t)

\* ------------------------------------------------------------------------
\* C6
\* ------------------------------------------------------------------------
SameListing(i, j) ==
  /\ calls[i].call = "list"
  /\ calls[j].call = "list"
  /\ calls[i].listing = calls[j].listing

\* C6: a listing fetches pages 1, 2, 3, ... in order, and page k+1 is
\* fetched exactly when page k came back as a list of PER_PAGE entries.
C6_Pagination ==
  \A i \in 1..Len(calls) :
    (calls[i].call = "list") =>
      \* the first fetch of a listing asks for page 1
      /\ (i = 1 \/ ~SameListing(i - 1, i)) => calls[i].page = 1
      \* a further fetch follows a full page and asks for the next one
      /\ (i > 1 /\ SameListing(i - 1, i))
           => calls[i - 1].len = PER_PAGE /\ calls[i].page = calls[i - 1].page + 1
      \* a full page is followed by the fetch of the next one
      /\ (calls[i].len = PER_PAGE)
           => IF i = Len(calls)
              THEN pc = "list_tags" /\ page = calls[i].page + 1
              ELSE SameListing(i, i + 1)

\* a listing that has ended on its second page, fetched after a full first
\* page
C6_Witness ==
  /\ pc # "list_tags"
  /\ \E i \in 2..Len(calls) :
       /\ SameListing(i - 1, i)
       /\ calls[i].page = 2
       /\ calls[i].len \in 0..(PER_PAGE - 1)

\* ------------------------------------------------------------------------
\* C7
\* ------------------------------------------------------------------------
\* a decimal numeral without a leading zero
IsCanonicalNumber(part) == IsDigits(part) /\ (Len(part) = 1 \/ part[1] # "0")

IsCanonicalVersion(str) ==
  LET parts == Split(str, ".")
  IN  /\ Len(parts) = 3
      /\ IsCanonicalNumber(parts[1])
      /\ IsCanonicalNumber(parts[2])
      /\ IsCanonicalNumber(parts[3])

\* C7 as stated: every string of three dot-separated digit groups, which is
\* what the code's own validation accepts as major.minor.patch, comes back
\* from parse_semver and format_version unchanged.
C7_RoundTripAsStated ==
  (ppc = "formatted" /\ IsCoreVersion(s_in)) => s_out = s_in

\* C7 (amended): every major.minor.patch string whose three components are
\* decimal numerals without a leading zero is parsed by parse_semver and
\* comes back from format_version unchanged.
C7_RoundTripCanonical ==
  IsCanonicalVersion(s_in)
    => /\ ppc # "in" => s_parsed.ok
       /\ ppc = "formatted" => s_out = s_in

\* a canonical version with a component of two digits, parsed and formatted
C7_Witness ==
  /\ ppc = "formatted"
  /\ IsCanonicalVersion(s_in)
  /\ Len(s_in) > 5

PushFailedAfterTag == HasCall("tag", TRUE) /\ HasCall("push", FALSE)

DanglingLocalTag ==
  /\ exit_code = 1
  /\ remote = remote0
  /\ tag_name \in localTags
  /\ localTags = local0 \cup {tag_name}

\* C9 as stated: a run in one of the publish modes ends with exit status 0
\* only if git tag and git push both succeeded; when git tag succeeds and
\* git push fails the run ends with exit status 1, origin is unchanged and
\* the local tag stays.
C9_PublishSuccessAsStated ==
  (pc = "done" /\ args.mode \in PublishModes)
    => /\ exit_code = 0 => HasCall("tag", TRUE) /\ HasCall("push", TRUE)
       /\ PushFailedAfterTag => DanglingLocalTag

\* C9 (amended): a run in one of the publish modes without --dry-run ends
\* with exit status 0 only if git tag and git push both succeeded; when git
\* tag succeeds and git push fails the run ends with exit status 1, origin
\* is unchanged and the local tag stays.
C9_PublishSuccess ==
  (pc = "done" /\ args.mode \in PublishModes)
    => /\ (exit_code = 0 /\ ~args.dry_run) => HasCall("tag", TRUE) /\ HasCall("push", TRUE)
       /\ PushFailedAfterTag => DanglingLocalTag

\* a run whose git tag succeeded and whose git push failed
C9_Witness ==
  /\ pc = "done"
  /\ args.mode \in PublishModes
  /\ PushFailedAfterTag

\* ------------------------------------------------------------------------
\* C10
\* ------------------------------------------------------------------------
\* C10: the version determine_version computes is not among the tags of the
\* listing it was computed from.
C10_ComputedVersionIsNew ==
  Determined
    => /\ version \notin Elems(latest_tags)
       /\ version \notin Elems(scan_tags)

====
